---- MODULE Spec2Model ----
(***************************************************************************)
(* Model of the connection state machine of go-FServer                     *)
(* (package connection, src/tool/sync/atomic/int.go lines 45-366), with    *)
(* the echo callback of src/unnamed/part_000 and the Packet function of    *)
(* src/plugins/websocket/protocol.go.                                      *)
(*                                                                         *)
(* One connection is modelled.  The record c holds the connection's        *)
(* fields and what the kernel, the poller and the buffer pool have seen    *)
(* from it.  The owning loop runs whole handlers (HandleEvent, RunTask);   *)
(* off-loop threads run Send and Close in two steps (the load of           *)
(* connected, then QueueInLoop), ShutdownWrite in one; the timing wheel    *)
(* runs closeTimeoutConn.                                                  *)
(***************************************************************************)
EXTENDS Integers, Sequences, FiniteSets, TLC

\* ------------------------------------------------------------------ bounds
MaxSends == 2       \* Send calls the application makes
MaxQueue == 2       \* tasks waiting in the loop's queue
MaxInbound == 2     \* bytes the peer sends in total
MaxTime == 3        \* clock ticks
IdleTime == 2       \* c.idleTime, in ticks
TicksPerSec == 2    \* clock ticks per second: time.Now() is finer than Unix()

\* The off-loop callers: one application thread that sends, one that closes,
\* and the timing wheel's thread ("tw"), which closes too.
Senders == {"t1"}
Closers == {"t2"}

\* ----------------------------------------------------------------- helpers
Take(s, n) == SubSeq(s, 1, n)
Drop(s, n) == SubSeq(s, n + 1, Len(s))
IsPrefix(p, s) == Len(p) <= Len(s) /\ Take(s, Len(p)) = p
Inc(n) == IF n < 2 THEN n + 1 ELSE n

\* The delimiter byte of the framing protocol; inbound payload bytes are
\* InBase + their position in the stream, bytes of Send calls are below InBase.
Delim == 0
InBase == 10 * (MaxSends + 2)

\* ---------------------------------------------------------------- syscalls
EAGAIN == "EAGAIN"
EFATAL == "EFATAL"
NoErr == "nil"

\* The (n, err) pairs unix.Write(c.fd, buf) can return.  After SHUT_WR the
\* kernel refuses writes (EPIPE).  On a closed fd the write fails (EBADF)
\* unless the number has been reused by another socket, where it may succeed.
WriteResults(s, buf) ==
    IF s.shutdown /\ s.closeCount = 0
    THEN {[n |-> -1, err |-> EFATAL]}
    ELSE {[n |-> -1, err |-> EAGAIN], [n |-> -1, err |-> EFATAL]}
         \cup {[n |-> k, err |-> NoErr] : k \in 0..Len(buf)}

\* The effect of unix.Write(c.fd, buf) returning r: accepted bytes reach the
\* wire of this connection only while its fd is open.
SysWrite(s, buf, r) ==
    [s EXCEPT !.werr = r.err,
              !.fatal = @ \/ r.err = EFATAL,
              !.nwrite = Inc(@),
              !.wire = IF r.err = NoErr /\ s.closeCount = 0
                       THEN @ \o Take(buf, r.n) ELSE @,
              !.ioAfterDisc = @ \/ ~s.connected,
              !.writesAfterClose = @ \/ s.closeCount > 0]

\* The chunks one unix.Read can return: some of the bytes the peer has yet
\* to send, each the delimiter or the next payload byte of the peer's stream.
RECURSIVE Chunks(_, _)
Chunks(pos, len) ==
    IF len = 0 THEN {<<>>}
    ELSE {<<b>> \o rest : b \in {Delim, InBase + pos + 1},
                          rest \in Chunks(pos + 1, len - 1)}

ReadResults(s) ==
    {[n |-> -1, err |-> EAGAIN, buf |-> <<>>],
     [n |-> -1, err |-> EFATAL, buf |-> <<>>],
     [n |-> 0, err |-> NoErr, buf |-> <<>>]}
    \cup {[n |-> Len(b), err |-> NoErr, buf |-> b] :
            b \in UNION {Chunks(s.rx, l) :
                           l \in 1..(s.peer - s.rx)}}

SysRead(s, r) ==
    [s EXCEPT !.rx = @ + Len(r.buf),
              !.rcvd = @ \o r.buf,
              !.fatal = @ \/ r.err = EFATAL,
              !.ioAfterDisc = @ \/ ~s.connected]

\* ------------------------------------------------------------------ poller
EnableRead(s) ==
    [s EXCEPT !.interest = IF s.closeCount = 0 THEN "r" ELSE @,
              !.ioAfterDisc = @ \/ ~s.connected]

EnableReadWrite(s) ==
    [s EXCEPT !.interest = IF s.closeCount = 0 THEN "rw" ELSE @,
              !.ioAfterDisc = @ \/ ~s.connected]

DeleteFdInLoop(s) == [s EXCEPT !.interest = "none"]

\* ---------------------------------------------------------------- protocol
\* Protocol.Packet returns its argument.
Packet(data) == data

\* Protocol.UnPacket: a frame is committed only when all its bytes are in
\* the buffer; ctx is non-nil exactly when a frame was committed.
RECURSIVE DelimPos(_, _)
DelimPos(buf, i) ==
    IF i > Len(buf) THEN 0
    ELSE IF buf[i] = Delim THEN i ELSE DelimPos(buf, i + 1)

UnPacket(buf) ==
    LET p == DelimPos(buf, 1) IN
    IF p = 0 THEN [ctx |-> FALSE, out |-> <<>>, rest |-> buf]
    ELSE [ctx |-> TRUE, out |-> Take(buf, p - 1), rest |-> Drop(buf, p)]

\* example.OnMessage: the echo callback.
OnMessage(data) == data

\* handlerProtocol: the framing loop.  Returns the reply accumulator, what
\* is left of the buffer and the payloads handed to OnMessage.
RECURSIVE handlerProtocolLoop(_, _, _)
handlerProtocolLoop(buf, out, msgs) ==
    LET u == UnPacket(buf) IN
    IF u.ctx \/ Len(u.out) # 0
    THEN LET sendData == OnMessage(u.out) IN
         handlerProtocolLoop(u.rest,
                             IF Len(sendData) > 0 THEN out \o Packet(sendData) ELSE out,
                             Append(msgs, u.out))
    ELSE [out |-> out, rest |-> u.rest, msgs |-> msgs]

handlerProtocol(buf) == handlerProtocolLoop(buf, <<>>, <<>>)

\* -------------------------------------------------------------- connection
\* handleClose without the check of connected.
handleClose_NoGuard(s) ==
    LET s1 == [s EXCEPT !.closeCalls = Inc(@), !.ran = @ \cup {"close"}] IN
    [DeleteFdInLoop(s1) EXCEPT
          !.connected = FALSE,
          !.onCloseCount = Inc(@),
          !.closeCount = Inc(@),
          !.inPut = Inc(@),
          !.outPut = Inc(@),
          !.inBuffer = <<>>,
          !.outBuffer = <<>>]

\* handleClose: the terminal transition.
handleClose(s) ==
    LET s1 == [s EXCEPT !.closeCalls = Inc(@), !.ran = @ \cup {"close"}] IN
    IF s1.connected
    THEN [DeleteFdInLoop(s1) EXCEPT
               !.connected = FALSE,
               !.onCloseCount = Inc(@),
               !.closeCount = Inc(@),
               !.inPut = Inc(@),
               !.outPut = Inc(@),
               !.inBuffer = <<>>,
               !.outBuffer = <<>>]
    ELSE s1

\* ringbuffer Write, Length and Retrieve on c.outBuffer.  Once the buffer is
\* back in the pool its contents belong to whoever holds it next: a write
\* lands in a foreign buffer and Length may report anything.
OutWrite(s, data) ==
    IF s.outPut > 0 THEN [s EXCEPT !.useAfterRelease = TRUE]
    ELSE [s EXCEPT !.outBuffer = @ \o data]

OutLengths(s) == IF s.outPut > 0 THEN {0, 1} ELSE {Len(s.outBuffer)}

OutRetrieve(s, n) == [s EXCEPT !.outBuffer = Drop(@, n)]

\* PeekAll: the two contiguous halves of the ring; the first is non-empty
\* when the buffer is.
PeekAll(s) ==
    {[first |-> Take(s.outBuffer, k), end |-> Drop(s.outBuffer, k)] :
        k \in 1..Len(s.outBuffer)}

\* afterWrite without the EnableReadWrite call.
afterWrite_NoEnable(s, data, r) ==
    {IF r.n = 0 THEN OutWrite(s, data)
     ELSE IF r.n < Len(data) THEN OutWrite(s, Drop(data, r.n))
     ELSE s}

\* afterWrite that keeps the whole of data after a partial write.
afterWrite_WholeData(s, data, r) ==
    LET s1 == IF r.n < Len(data) THEN OutWrite(s, data) ELSE s
    IN {IF l > 0 THEN EnableReadWrite(s1) ELSE s1 : l \in OutLengths(s1)}

\* sendInLoop after a write that returned no error (lines 341-352).
afterWrite(s, data, r) ==
    LET s1 == IF r.n = 0 THEN OutWrite(s, data)
              ELSE IF r.n < Len(data) THEN OutWrite(s, Drop(data, r.n))
              ELSE s
    IN {IF l > 0 THEN EnableReadWrite(s1) ELSE s1 : l \in OutLengths(s1)}

\* sendInLoop: the set of states it can leave, over the results of write.
sendInLoop(s, data) ==
    LET s0 == [s EXCEPT !.handed = @ \o data,
                        !.useAfterRelease = @ \/ s.outPut > 0] IN
    UNION {IF l > 0
           THEN {OutWrite(s0, data)}
           ELSE UNION {LET s1 == SysWrite(s0, data, r) IN
                       IF r.err # NoErr
                       THEN (IF r.err = EAGAIN THEN {s1} ELSE {handleClose(s1)})
                       ELSE afterWrite(s1, data, r) : r \in WriteResults(s0, data)}
           : l \in OutLengths(s0)}

\* handleWrite that only returns on a fatal write error.
handleWrite_NoClose(s) ==
    LET s0 == [s EXCEPT !.ran = @ \cup {"write"}] IN
    UNION {UNION {
        LET s1 == SysWrite(s0, pk.first, r1) IN
        IF r1.err # NoErr
        THEN {s1}
        ELSE LET s2 == OutRetrieve(s1, r1.n) IN
             IF r1.n = Len(pk.first) /\ Len(pk.end) > 0
             THEN UNION {
                  LET s3 == SysWrite(s2, pk.end, r2) IN
                  IF r2.err # NoErr
                  THEN {s3}
                  ELSE LET s4 == OutRetrieve(s3, r2.n) IN
                       {IF Len(s4.outBuffer) = 0 THEN EnableRead(s4) ELSE s4}
                  : r2 \in WriteResults(s2, pk.end)}
             ELSE {IF Len(s2.outBuffer) = 0 THEN EnableRead(s2) ELSE s2}
        : r1 \in WriteResults(s0, pk.first)} : pk \in PeekAll(s0)}

\* handleWriteOf that writes the second half whatever the first write
\* accepted.
handleWriteOf_AlwaysSecond(s0, pk) ==
    UNION {
        LET s1 == SysWrite(s0, pk.first, r1) IN
        IF r1.err # NoErr
        THEN (IF r1.err = EAGAIN THEN {s1} ELSE {handleClose(s1)})
        ELSE LET s2 == OutRetrieve(s1, r1.n) IN
             IF Len(pk.end) > 0
             THEN UNION {
                  LET s3 == SysWrite(s2, pk.end, r2) IN
                  IF r2.err # NoErr
                  THEN (IF r2.err = EAGAIN THEN {s3} ELSE {handleClose(s3)})
                  ELSE LET s4 == OutRetrieve(s3, r2.n) IN
                       {IF Len(s4.outBuffer) = 0 THEN EnableRead(s4) ELSE s4}
                  : r2 \in WriteResults(s2, pk.end)}
             ELSE {IF Len(s2.outBuffer) = 0 THEN EnableRead(s2) ELSE s2}
        : r1 \in WriteResults(s0, pk.first)}

\* handleWrite once PeekAll has returned the halves pk (lines 273-305).
handleWriteOf(s0, pk) ==
    UNION {
        LET s1 == SysWrite(s0, pk.first, r1) IN
        IF r1.err # NoErr
        THEN (IF r1.err = EAGAIN THEN {s1} ELSE {handleClose(s1)})
        ELSE LET s2 == OutRetrieve(s1, r1.n) IN
             IF r1.n = Len(pk.first) /\ Len(pk.end) > 0
             THEN UNION {
                  LET s3 == SysWrite(s2, pk.end, r2) IN
                  IF r2.err # NoErr
                  THEN (IF r2.err = EAGAIN THEN {s3} ELSE {handleClose(s3)})
                  ELSE LET s4 == OutRetrieve(s3, r2.n) IN
                       {IF Len(s4.outBuffer) = 0 THEN EnableRead(s4) ELSE s4}
                  : r2 \in WriteResults(s2, pk.end)}
             ELSE {IF Len(s2.outBuffer) = 0 THEN EnableRead(s2) ELSE s2}
        : r1 \in WriteResults(s0, pk.first)}

\* handleWrite: the writability drain.
handleWrite(s) ==
    LET s0 == [s EXCEPT !.ran = @ \cup {"write"}] IN
    UNION {handleWriteOf(s0, pk) : pk \in PeekAll(s0)}

\* handleRead whose append path frames the new bytes alone.
handleRead_NoJoin(s) ==
    LET s0 == [s EXCEPT !.ran = @ \cup {"read"}] IN
    UNION {
        LET s1 == SysRead(s0, r) IN
        IF r.n = 0 \/ r.err # NoErr
        THEN (IF r.err # EAGAIN THEN {handleClose(s1)} ELSE {s1})
        ELSE LET h == handlerProtocol(r.buf)
                 s2 == [s1 EXCEPT !.msgs = @ \o h.msgs,
                                  !.ioAfterDisc = @ \/ (Len(h.msgs) > 0 /\ ~s1.connected),
                                  !.inBuffer = IF Len(h.rest) > 0 THEN @ \o h.rest ELSE @]
             IN IF Len(h.out) # 0 THEN sendInLoop(s2, h.out) ELSE {s2}
        : r \in ReadResults(s0)}

\* handleRead: the read path.
handleRead(s) ==
    LET s0 == [s EXCEPT !.ran = @ \cup {"read"}] IN
    UNION {
        LET s1 == SysRead(s0, r) IN
        IF r.n = 0 \/ r.err # NoErr
        THEN (IF r.err # EAGAIN THEN {handleClose(s1)} ELSE {s1})
        ELSE IF Len(s1.inBuffer) = 0
        THEN LET h == handlerProtocol(r.buf)
                 s2 == [s1 EXCEPT !.msgs = @ \o h.msgs,
                                  !.ioAfterDisc = @ \/ (Len(h.msgs) > 0 /\ ~s1.connected),
                                  !.inBuffer = IF Len(h.rest) > 0 THEN @ \o h.rest ELSE @]
             IN IF Len(h.out) # 0 THEN sendInLoop(s2, h.out) ELSE {s2}
        ELSE LET h == handlerProtocol(s1.inBuffer \o r.buf)
                 s2 == [s1 EXCEPT !.msgs = @ \o h.msgs,
                                  !.ioAfterDisc = @ \/ (Len(h.msgs) > 0 /\ ~s1.connected),
                                  !.inBuffer = h.rest]
             IN IF Len(h.out) # 0 THEN sendInLoop(s2, h.out) ELSE {s2}
        : r \in ReadResults(s0)}

\* HandleEvent that serves every bit of the event: the write path, then the
\* read path.
HandleEvent_EveryBit(s, ev, t) ==
    LET s0 == [s EXCEPT !.activeTime = IF s.idleTime > 0 THEN t \div TicksPerSec ELSE @,
                        !.lastEvent = t] IN
    IF "ERR" \in ev THEN {handleClose(s0)}
    ELSE IF Len(s0.outBuffer) # 0
    THEN LET w == IF "WRITE" \in ev THEN handleWrite(s0) ELSE {s0} IN
         IF "READ" \in ev THEN UNION {handleRead(x) : x \in w} ELSE w
    ELSE {s0}

\* HandleEvent: the states the handler can leave for the event set ev
\* delivered at clock tick t.
HandleEvent(s, ev, t) ==
    LET s0 == [s EXCEPT !.activeTime = IF s.idleTime > 0 THEN t \div TicksPerSec ELSE @,
                        !.lastEvent = t] IN
    IF "ERR" \in ev THEN {handleClose(s0)}
    ELSE IF Len(s0.outBuffer) # 0
    THEN (IF "WRITE" \in ev THEN handleWrite(s0)
          ELSE IF "READ" \in ev THEN handleRead(s0)
          ELSE {s0})
    ELSE {s0}

\* ------------------------------------------------------------------- state
VARIABLES
    c,        \* the connection, with what the kernel, poller and pool saw of it
    queue,    \* the owning loop's task queue (QueueInLoop)
    thr,      \* the off-loop threads inside Send or Close
    budget,   \* Send calls the application has yet to make
    now,      \* the last reading of the clock, in ticks
    timer     \* the timing wheel: when closeTimeoutConn fires, or done

vars == <<c, queue, thr, budget, now, timer>>

Callers == Senders \cup Closers \cup {"tw"}
\* The error Send and Close return on a connection that is not connected,
\* and a thread outside any call, with what its last Send or Close returned.
ErrConnectionClosed == "ErrConnectionClosed"
Returned(err) == [pc |-> "idle", data |-> <<>>, ret |-> err]
Idle == Returned(NoErr)

\* New: the connection as the constructor leaves it, registered for reads.
New(idle, peer) ==
    [idleTime |-> idle, peer |-> peer, connected |-> TRUE, shutdown |-> FALSE, interest |-> "r",
     outBuffer |-> <<>>, inBuffer |-> <<>>, wire |-> <<>>,
     activeTime |-> 0, lastEvent |-> 0,
     poolGet |-> 2, inPut |-> 0, outPut |-> 0,
     onCloseCount |-> 0, closeCount |-> 0,
     rx |-> 0, rcvd |-> <<>>, msgs |-> <<>>, handed |-> <<>>,
     closeCalls |-> 0, ioAfterDisc |-> FALSE, writesAfterClose |-> FALSE,
     useAfterRelease |-> FALSE, lateSend |-> FALSE, byClose |-> FALSE,
     ran |-> {}, werr |-> NoErr, fatal |-> FALSE, nwrite |-> 0]

\* The timing wheel after New: AfterFunc(idleTime, closeTimeoutConn) when
\* idleTime > 0, nothing otherwise.
AfterNew(idle) == IF idle > 0 THEN [at |-> idle, on |-> TRUE]
                              ELSE [at |-> 0, on |-> FALSE]

\* A server with an idle timeout, whose application sends MaxSends - 1 times
\* and whose peer sends nothing.
Init ==
    /\ c = New(IdleTime, 0)
    /\ queue = <<>>
    /\ thr = [t \in Callers |-> Idle]
    /\ budget = MaxSends - 1
    /\ now = 0
    /\ timer = AfterNew(IdleTime)

\* A server without idle timeout (idleTime = 0), whose peer sends MaxInbound
\* bytes.
InitIO ==
    /\ c = New(0, MaxInbound)
    /\ queue = <<>>
    /\ thr = [t \in Callers |-> Idle]
    /\ budget = MaxSends
    /\ now = 0
    /\ timer = AfterNew(0)

\* The event sets the poller can deliver: ERR and READ whenever the fd is
\* registered, WRITE only while write interest is enabled.
Events ==
    {ev \in SUBSET {"ERR", "READ", "WRITE"} :
        ev # {} /\ ("WRITE" \in ev => c.interest = "rw")}

\* ----------------------------------------------------------- the owning loop
\* Between handlers nothing remembers which paths the last one took.
Settle(s) == [s EXCEPT !.ran = {}, !.werr = NoErr, !.fatal = FALSE, !.nwrite = 0]

\* The clock readings a step can take: time.Now() is at or after the last
\* reading.  Once the timer has given up nothing reads activeTime again, and
\* the clock is left where it was.
Times(from) == IF timer.on THEN from..MaxTime ELSE {now}

\* The loop dispatches one readiness event to HandleEvent.
LoopEvent ==
    /\ c.interest # "none"
    /\ \E t \in Times(now) :
         /\ now' = t
         /\ \E ev \in Events : \E s \in HandleEvent(c, ev, t) : c' = Settle(s)
    /\ UNCHANGED <<queue, thr, budget, timer>>

\* The task Send queued: c.sendInLoop(c.protocol.Packet(c, buffer)).
sendTask(s, data) ==
    sendInLoop([s EXCEPT !.lateSend = @ \/ s.closeCount > 0], Packet(data))

\* The task Close queued: c.handleClose(c.fd).
closeTask(s) == {handleClose([s EXCEPT !.byClose = @ \/ s.connected])}

\* The loop runs the task at the head of its queue.
RunTask ==
    /\ Len(queue) > 0
    /\ \E s \in (IF Head(queue).op = "send" THEN sendTask(c, Head(queue).data)
                 ELSE closeTask(c)) : c' = Settle(s)
    /\ queue' = Tail(queue)
    /\ UNCHANGED <<thr, budget, now, timer>>

\* --------------------------------------------------------- off-loop callers
\* The bytes of the k-th Send call: two bytes no other call carries.
Message(k) == <<10 * k + 1, 10 * k + 2>>

\* Send without the test of connected.
SendCheck_NoCheck(t) ==
    /\ thr[t].pc = "idle"
    /\ budget > 0
    /\ thr' = [thr EXCEPT ![t] = [pc |-> "send", data |-> Message(MaxSends - budget + 1),
                                  ret |-> NoErr]]
    /\ budget' = budget - 1
    /\ UNCHANGED <<c, queue, now, timer>>

\* Send, first step: the load of connected.
SendCheck(t) ==
    /\ thr[t].pc = "idle"
    /\ budget > 0
    /\ IF c.connected
       THEN /\ thr' = [thr EXCEPT ![t] = [pc |-> "send", data |-> Message(MaxSends - budget + 1),
                                          ret |-> NoErr]]
            /\ budget' = budget - 1
       ELSE /\ thr' = [thr EXCEPT ![t] = Returned(ErrConnectionClosed)]
            /\ budget' = budget
    /\ UNCHANGED <<c, queue, now, timer>>

\* Send that runs sendInLoop on the caller's thread instead of queueing it.
SendQueue_Direct(t) ==
    /\ thr[t].pc = "send"
    /\ \E s \in sendTask(c, thr[t].data) : c' = Settle(s)
    /\ thr' = [thr EXCEPT ![t] = Idle]
    /\ UNCHANGED <<queue, budget, now, timer>>

\* Send, second step: QueueInLoop, then return nil.
SendQueue(t) ==
    /\ thr[t].pc = "send"
    /\ Len(queue) < MaxQueue
    /\ queue' = Append(queue, [op |-> "send", data |-> thr[t].data])
    /\ thr' = [thr EXCEPT ![t] = Idle]
    /\ UNCHANGED <<c, budget, now, timer>>

\* Close, first step: the load of connected.
CloseCheck(t) ==
    /\ thr[t].pc = "idle"
    /\ thr' = [thr EXCEPT ![t] = IF c.connected
                                 THEN [pc |-> "close", data |-> <<>>, ret |-> NoErr]
                                 ELSE Returned(ErrConnectionClosed)]
    /\ UNCHANGED <<c, queue, budget, now, timer>>

\* Close, second step: QueueInLoop, then return nil.  Also the end of the
\* Close call made by closeTimeoutConn.
CloseQueue(t) ==
    /\ thr[t].pc = "close"
    /\ Len(queue) < MaxQueue
    /\ queue' = Append(queue, [op |-> "close", data |-> <<>>])
    /\ thr' = [thr EXCEPT ![t] = Idle]
    /\ UNCHANGED <<c, budget, now, timer>>

\* ShutdownWrite: connected.Set(false), then shutdown(fd, SHUT_WR).  On a
\* connection that is no longer connected the call changes nothing.
ShutdownWrite ==
    /\ c.connected
    /\ c' = [c EXCEPT !.connected = FALSE, !.shutdown = TRUE]
    /\ UNCHANGED <<queue, thr, budget, now, timer>>

\* ------------------------------------------------------------ timing wheel
\* now.Sub(time.Unix(c.activeTime.Get(), 0)), in ticks.
intervals(s, t) == t - s.activeTime * TicksPerSec

\* closeTimeoutConn: the timer callback, run by the timing wheel at or after
\* the time it was set for, up to the load of connected in Close.
closeTimeoutConn ==
    /\ timer.on
    /\ thr["tw"].pc = "idle"
    /\ \E t \in Times(IF timer.at > now THEN timer.at ELSE now) :
         /\ now' = t
         /\ IF intervals(c, t) >= c.idleTime
            THEN /\ timer' = [timer EXCEPT !.on = FALSE]
                 /\ thr' = [thr EXCEPT !["tw"] =
                               IF c.connected
                               THEN [pc |-> "close", data |-> <<>>, ret |-> NoErr]
                               ELSE Returned(ErrConnectionClosed)]
            ELSE /\ timer' = [timer EXCEPT !.at = t + (c.idleTime - intervals(c, t))]
                 /\ thr' = thr
    /\ UNCHANGED <<c, queue, budget>>

Next ==
    \/ LoopEvent
    \/ RunTask
    \/ \E t \in Senders : SendCheck(t)
    \/ \E t \in Senders : SendQueue(t)
    \/ \E t \in Closers : CloseCheck(t)
    \/ \E t \in Closers \cup {"tw"} : CloseQueue(t)
    \/ ShutdownWrite
    \/ closeTimeoutConn

Spec == Init /\ [][Next]_vars

\* Without idle timeout the timing wheel never runs.
NextIO ==
    \/ LoopEvent
    \/ RunTask
    \/ \E t \in Senders : SendCheck(t)
    \/ \E t \in Senders : SendQueue(t)
    \/ \E t \in Closers : CloseCheck(t)
    \/ \E t \in Closers : CloseQueue(t)
    \/ ShutdownWrite

SpecIO == InitIO /\ [][NextIO]_vars

\* ------------------------------------------------------------------ claims
\* The bytes of s that came from Send calls, in order.
IsSendByte(b) == b # Delim /\ b < InBase
SendBytes(s) == SelectSeq(s, IsSendByte)

\* The bytes of the send tasks in q, in queue order.
RECURSIVE QueuedBytes(_)
QueuedBytes(q) ==
    IF q = <<>> THEN <<>>
    ELSE (IF Head(q).op = "send" THEN Head(q).data ELSE <<>>) \o QueuedBytes(Tail(q))

\* The bytes of the send tasks QueueInLoop has accepted so far, in the order
\* it accepted them: those the loop has run, then those still queued.
Accepted == SendBytes(c.handed) \o QueuedBytes(queue)

C2_NoPostCloseWrite ==
    c.byClose => (~c.writesAfterClose /\ ~c.lateSend)

\* C3: an event with READ set and ERR clear, delivered while outBuffer is
\* empty, runs the read path.
C3_ReadRunsOnRead ==
    (c.interest # "none" /\ Len(c.outBuffer) = 0) =>
        \A ev \in Events :
            ("READ" \in ev /\ "ERR" \notin ev) =>
                \A s \in HandleEvent(c, ev, now) : "read" \in s.ran

\* C4: when the send task at the head of the queue enters sendInLoop with an
\* empty outBuffer and write returns EAGAIN, the data stays in outBuffer as
\* long as the connection stays connected.
C4_WouldBlockKeepsData ==
    (Len(queue) > 0 /\ Head(queue).op = "send" /\ c.connected /\ Len(c.outBuffer) = 0) =>
        \A s \in sendTask(c, Head(queue).data) :
            (s.werr = EAGAIN /\ s.connected) => s.outBuffer = Packet(Head(queue).data)

\* C5: the bytes of Send calls appear on the wire in the order QueueInLoop
\* accepted them, none skipped: what has been written is a prefix of what
\* was accepted.
C5_Fifo == IsPrefix(SendBytes(c.wire), Accepted)

\* C6: once connected is false, no OnMessage is invoked and no read, write or
\* poller syscall is issued (the terminal transition's own delete and close
\* apart).
C6_QuietOnceDisconnected == ~c.ioAfterDisc

\* C7: whenever the loop is between handlers and the connection is
\* connected, write interest is enabled iff outBuffer is non-empty.
C7_InterestMatchesBacklog ==
    c.connected =>
        /\ c.interest = "rw" <=> Len(c.outBuffer) > 0
        /\ c.interest = "r" <=> Len(c.outBuffer) = 0

\* A connected connection with a backlog left by a partial write, part of
\* which has reached the wire.
C7_Witness ==
    /\ c.connected
    /\ c.interest = "rw"
    /\ Len(c.outBuffer) > 0
    /\ Len(c.wire) > 0
    /\ Len(c.handed) > Len(c.wire) + Len(c.outBuffer)

\* C8: close(fd) is issued at most once, and exactly once as soon as the
\* loop has processed a trigger of the terminal transition, ShutdownWrite
\* calls included.
C8_FdClosedOnce ==
    /\ c.closeCount <= 1
    /\ c.closeCalls > 0 => c.closeCount = 1

\* C9: no buffer goes back to the pool twice, and once the connection is no
\* longer connected and the loop has processed a trigger of the terminal
\* transition, as many buffers have been returned as were acquired.
C9_PoolBalance ==
    /\ c.inPut <= 1 /\ c.outPut <= 1
    /\ (~c.connected /\ c.closeCalls > 0) => c.inPut + c.outPut = c.poolGet

\* C10: after ShutdownWrite, once the loop has observed an ERR event, a read
\* EOF or a fatal I/O error, the connection is terminal: OnClose invoked, fd
\* closed, registration removed, both buffers back in the pool.
C10_TerminalAfterShutdown ==
    (c.shutdown /\ c.closeCalls > 0) =>
        /\ c.onCloseCount = 1
        /\ c.closeCount = 1
        /\ c.interest = "none"
        /\ c.inPut = 1 /\ c.outPut = 1

\* C11: a Send or Close call made while connected is false (after OnClose or
\* after ShutdownWrite) returns ErrConnectionClosed at once: the caller is
\* back outside the call with that error, no task is queued, and the
\* connection is as it was.
C11_RejectedWhenClosed ==
    [][\A t \in Senders \cup Closers :
          (~c.connected /\ thr[t].pc = "idle" /\ thr'[t] # thr[t]) =>
              /\ thr'[t] = Returned(ErrConnectionClosed)
              /\ queue' = queue
              /\ c' = c]_vars

\* After OnClose, a Send and a Close have both been refused, nothing is
\* queued and the closed connection holds no task's bytes.
C11_Witness ==
    /\ c.onCloseCount = 1
    /\ thr["t1"] = Returned(ErrConnectionClosed)
    /\ thr["t2"] = Returned(ErrConnectionClosed)
    /\ queue = <<>>

\* The frames of an inbound stream: the payloads closed by a delimiter, in
\* order, and the bytes after the last delimiter.
RECURSIVE FramesFrom(_, _, _)
FramesFrom(stream, cur, done) ==
    IF stream = <<>> THEN [msgs |-> done, rest |-> cur]
    ELSE IF Head(stream) = Delim
         THEN FramesFrom(Tail(stream), <<>>, Append(done, cur))
         ELSE FramesFrom(Tail(stream), Append(cur, Head(stream)), done)

Frames(stream) == FramesFrom(stream, <<>>, <<>>)

C13_IdleClosed ==
    (c.idleTime > 0 /\ ~timer.on /\ thr["tw"] = Returned(NoErr) /\ queue = <<>>) =>
        /\ c.onCloseCount = 1
        /\ c.closeCount = 1
        /\ ~c.connected

\* The connection after the terminal transition, with no write issued on
\* the closed fd.
Terminal(s) ==
    /\ ~s.connected
    /\ s.onCloseCount = 1
    /\ s.closeCount = 1
    /\ s.interest = "none"
    /\ s.inPut = 1 /\ s.outPut = 1
    /\ ~s.writesAfterClose

\* C14: on a connected connection, a handler in which read or write returns
\* an error other than EAGAIN (the read path, the writability drain, or
\* sendInLoop run from a readiness event or from a send task) ends with the
\* connection terminal: connected false, OnClose fired, fd closed, both
\* buffers back in the pool, and no write after the close.
C14_FatalIsTerminal ==
    c.connected =>
        /\ \A ev \in Events : \A s \in HandleEvent(c, ev, now) :
               s.fatal => Terminal(s)
        /\ (Len(queue) > 0 /\ Head(queue).op = "send") =>
               \A s \in sendTask(c, Head(queue).data) : s.fatal => Terminal(s)

\* A connected connection is draining a backlog, and a drain exists in
\* which the first half is accepted and the write of the second half fails
\* fatally, leaving the connection terminal.
C14_Witness ==
    /\ c.connected
    /\ c.interest = "rw"
    /\ Len(c.outBuffer) > 1
    /\ \E s \in HandleEvent(c, {"WRITE"}, now) :
           s.fatal /\ Len(s.wire) > Len(c.wire) /\ Terminal(s)

\* C15: a step of Send, Close or the idle timer's callback, made off the
\* owning loop, leaves the connection as it was (inBuffer, outBuffer, poller
\* registration, fd, nothing written) and at most appends one task to the
\* loop's queue.
C15_CallersOnlyQueue ==
    [][(thr' # thr \/ timer' # timer) =>
          /\ c' = c
          /\ \/ queue' = queue
             \/ \E task \in {[op |-> "send", data |-> thr[u].data] : u \in Senders}
                             \cup {[op |-> "close", data |-> <<>>]} :
                    queue' = Append(queue, task)]_vars

\* Send has queued its task, the idle timer has fired and its Close has
\* queued one too, and the connection is still as New left it.
C15_Witness ==
    /\ Len(queue) = 2
    /\ queue[1].op = "send"
    /\ queue[2].op = "close"
    /\ ~timer.on
    /\ thr["tw"].pc = "idle"
    /\ c = New(IdleTime, 0)

\* C16: HandleEvent dispatches an event to one path.  With ERR set only
\* the terminal transition runs: nothing is read or written.  Otherwise,
\* with outBuffer non-empty, WRITE set runs the write path and not the read
\* path, even when READ is set too, and the read path runs only when WRITE
\* is not set.  The terminal transition runs besides a path only for a
\* failed read or write of that path.
C16_DispatchPriority ==
    c.interest # "none" =>
        \A ev \in Events : \A s \in HandleEvent(c, ev, now) :
            /\ ~({"read", "write"} \subseteq s.ran)
            /\ "ERR" \in ev =>
                   (s.ran = {"close"} /\ s.wire = c.wire /\ s.rcvd = c.rcvd)
            /\ ("ERR" \notin ev /\ Len(c.outBuffer) # 0 /\ "WRITE" \in ev) =>
                   ("write" \in s.ran /\ s.rcvd = c.rcvd)
            /\ ("ERR" \notin ev /\ Len(c.outBuffer) # 0 /\ "WRITE" \notin ev) =>
                   "read" \in s.ran
            /\ ("ERR" \notin ev /\ "close" \in s.ran) => s.fatal \/ "read" \in s.ran

\* With output pending and inbound bytes waiting, an event with READ and
\* WRITE both set has an outcome that wrote and read nothing, and an event
\* with READ alone one that read.
C16_Witness ==
    /\ c.connected
    /\ c.interest = "rw"
    /\ Len(c.outBuffer) # 0
    /\ c.rx < c.peer
    /\ \E s \in HandleEvent(c, {"READ", "WRITE"}, now) :
           s.ran = {"write"} /\ Len(s.wire) > Len(c.wire) /\ s.rcvd = c.rcvd
    /\ \E s \in HandleEvent(c, {"READ"}, now) :
           s.ran = {"read"} /\ Len(s.rcvd) > Len(c.rcvd)

\* C17: backpressure in sendInLoop, for the send task at the head of the
\* queue on a connected connection.  With outBuffer non-empty the data is
\* appended and no write is issued.  With outBuffer empty, one write is
\* issued; when it accepts n bytes, n < len(data) leaves exactly data[n:] in
\* outBuffer with read+write interest, and n = len(data) leaves outBuffer
\* empty and the interest as it was.
C17_Backpressure ==
    (c.connected /\ Len(queue) > 0 /\ Head(queue).op = "send") =>
        LET data == Packet(Head(queue).data) IN
        \A s \in sendTask(c, Head(queue).data) :
            IF Len(c.outBuffer) > 0
            THEN /\ s.outBuffer = c.outBuffer \o data
                 /\ s.nwrite = 0
                 /\ s.wire = c.wire
                 /\ s.interest = c.interest
            ELSE /\ s.nwrite = 1
                 /\ s.werr = NoErr =>
                      LET n == Len(s.wire) - Len(c.wire) IN
                      /\ s.wire = c.wire \o Take(data, n)
                      /\ n < Len(data) =>
                             (s.outBuffer = Drop(data, n) /\ s.interest = "rw")
                      /\ n = Len(data) =>
                             (s.outBuffer = <<>> /\ s.interest = c.interest)

\* A send task is about to run on a connected connection with an empty
\* outBuffer, and one outcome is a write that accepted one byte of two.
C17_Witness ==
    /\ c.connected
    /\ Len(c.outBuffer) = 0
    /\ Len(queue) > 0
    /\ Head(queue).op = "send"
    /\ \E s \in sendTask(c, Head(queue).data) :
           /\ s.wire = c.wire \o Take(Head(queue).data, 1)
           /\ s.outBuffer = Drop(Head(queue).data, 1)
           /\ s.interest = "rw"

\* C18: the writability drain on an open fd with a backlog and write
\* interest, for each pair of halves PeekAll can return.  The bytes written
\* are a prefix of the previous outBuffer and, unless a fatal error released
\* the buffer, what is left in outBuffer is the rest of it.  The second half
\* is written only when the first was accepted whole.  EAGAIN leaves the
\* interest as it was, and outBuffer too when it came from the first write.
\* Otherwise the interest is read-only exactly when outBuffer is now empty.
C18_DrainConserves ==
    (c.closeCount = 0 /\ c.interest = "rw" /\ Len(c.outBuffer) > 0) =>
        \A pk \in PeekAll(c) : \A s \in handleWriteOf(c, pk) :
            LET w == Drop(s.wire, Len(c.wire)) IN
            /\ s.wire = c.wire \o w
            /\ IsPrefix(w, c.outBuffer)
            /\ s.outPut = 0 => w \o s.outBuffer = c.outBuffer
            /\ s.nwrite = 2 => Len(w) >= Len(pk.first)
            /\ s.werr = EAGAIN =>
                   /\ s.interest = c.interest
                   /\ s.nwrite = 1 => s.outBuffer = c.outBuffer
            /\ (s.outPut = 0 /\ s.werr = NoErr) =>
                   s.interest = (IF Len(s.outBuffer) = 0 THEN "r" ELSE "rw")

\* A connected connection with two bytes pending, and a drain of them in
\* two halves: both accepted, outBuffer empty, interest back to read-only.
C18_Witness ==
    /\ c.connected
    /\ c.interest = "rw"
    /\ Len(c.outBuffer) = 2
    /\ \E pk \in PeekAll(c) : \E s \in handleWriteOf(c, pk) :
           /\ Len(pk.end) > 0
           /\ s.nwrite = 2
           /\ s.wire = c.wire \o c.outBuffer
           /\ s.outBuffer = <<>>
           /\ s.interest = "r"

\* C19: when the idle timer fires at clock reading now', it gives up and
\* calls Close iff now' - activeTime >= idleTime, and otherwise re-arms
\* itself once, for idleTime - delta later, without calling Close; and when
\* it calls Close, the most recent readiness event is at least idleTime old.
C19_TimerDecision ==
    [][timer' # timer =>
          LET delta == intervals(c, now') IN
          /\ ~timer'.on <=> delta >= c.idleTime
          /\ delta < c.idleTime =>
                 (timer'.at = now' + (c.idleTime - delta) /\ thr' = thr)
          /\ (~timer'.on /\ thr'["tw"].pc = "close") =>
                 now' - c.lastEvent >= c.idleTime]_vars

\* C20: once the terminal transition has put inBuffer and outBuffer back in
\* the pool, no later step of the connection reads or writes either of
\* them.
C20_NoUseAfterRelease == ~c.useAfterRelease

====
